---- MODULE Spec2Model ----
(***************************************************************************)
(* Model of the VR presence server: the room registry (src/src/index.ts),  *)
(* the per-connection socket handlers (src/src/index.ts) and the Room      *)
(* physics loop (src/src/room.ts).                                         *)
(*                                                                         *)
(* Node runs every handler and every timer callback to completion on one   *)
(* thread, so each handler and each tick is one atomic action.             *)
(*                                                                         *)
(* Numbers are integers.  Time is counted in ticks (TICK_LENGTH is one     *)
(* unit) and speeds in position units per tick, so that the products       *)
(* gravity * TICK_LENGTH and velocity * TICK_LENGTH of Room.tick are       *)
(* exact; the code's 1/60 s and 9.8 m/s^2 only rescale these units.        *)
(***************************************************************************)
EXTENDS Integers, Sequences, FiniteSets, TLC

\* ---------------------------------------------------------------- bounds
\* Room objects constructed in one run (new Room), a cap on the heap.
MaxRooms == 2
\* Cap on a Room's serverTime: the timer is not modelled past this tick.
MaxTime == 2
\* Cap on |position.y| and |velocity.y|.
MaxY == 2
\* Calls of start() on one Room.
MaxStarts == 2
\* Observers registered on one Room by direct calls of onTick.
MaxObservers == 2
\* Largest distance from the origin along x and z that a move may reach.
MaxStep == 1
\* Largest yaw below 0, in quarter turns, that a rotation may reach.
MaxTurn == 2

\* ----------------------------------------------------- program constants
\* room.ts: TICK_LENGTH, the time unit of the model.
TICK_LENGTH == 1
\* room.ts: FLOOR_Y.
FLOOR_Y == 0
\* index.ts: DEFAULT_GRAVITY = GRAVITY.EARTH, one position unit per tick^2.
DEFAULT_GRAVITY == 1
\* index.ts: the default of the 'jump' handler's speed parameter.
DEFAULT_JUMP_SPEED == 2
\* Math.PI, with angles counted in quarter turns (pi / 2).
PI == 2

\* ------------------------------------------------------------ input sets
\* Connections, named by the uuid the connection handler draws for them.
Conns == {"u1", "u2"}
\* Room ids a client may send with the 'room' event ("" is a string too).
RoomIds == {"", "A", "B"}
\* The room ids of the runs that explore the physics.
PhysicsRoomIds == {"A"}
\* The connections that send movement events in those runs; the others only
\* join, leave and stand in the room.
Movers == {"u1"}
\* The room ids the handlers see in the runs that call the registry directly.
OpsRoomIds == {"A"}
\* The room ids of the runs that explore the notifications.
NotifyRoomIds == {"A", "B"}
\* Angles a client may send with 'set-yaw' and 'set-pitch'.
Angles == {1}
\* The heap indices of the Rooms a caller constructs directly.
HarnessRooms == {1}
\* The observers a caller of onTick registers besides the handlers' own.
Probes == {"p1", "p2"}
\* The connections that send the events that turn or paint a Person, in the
\* runs that explore every event.
Turners == {"u2"}
\* Magnitudes a client may send with the move events.
MoveMagnitudes == {-1, 1}
\* Angles, in quarter turns, a client may send with 'rotate-counterclockwise'.
Rotations == {-1, 1, 3}
\* Colors and shapes a client may send.
Colors == {"#0000ff"}
Shapes == {"sphere"}
\* Usernames a client may send.
Names == {"bob"}
\* Magnitudes a client may send with 'fly'.
FlyMagnitudes == {-1, 1}
\* Argument lists a client may send with 'jump': no speed, or one speed.
JumpArgs == {<< >>, <<-1>>}

VARIABLES
  conn,      \* conn[c]: "none" (not yet connected), "open", "closed"
  roomID,    \* roomID[c]: the connection handler's closure variable roomID
  person,    \* person[c]: the Person object the connection handler created
  channels,  \* channels[c]: the socket.io rooms socket c has joined
  rooms,     \* the registry Map<string, Room>: room id -> index in heap
  heap,      \* the Room objects constructed so far, in construction order
  timers,    \* active setInterval timers: <<room index, handle>>
  emitted,   \* the messages the last step handed to socket.io
  error,     \* "" or the uncaught exception that ended the process
  last       \* the last step taken

vars == <<conn, roomID, person, channels, rooms, heap, timers, emitted, error, last>>

\* ------------------------------------------------------------ Person
createPerson(username) ==
  [ position |-> [x |-> 0, y |-> 0, z |-> 0],
    velocity |-> [x |-> 0, y |-> 0, z |-> 0],
    username |-> username,
    yaw      |-> 0,
    pitch    |-> 0,
    flying   |-> FALSE,
    color    |-> "#ff7700",
    shape    |-> "cube" ]

\* ------------------------------------------------------------ Room
\* people maps a user id to the Person object stored under it, named by the
\* connection that owns the object.  tickCallbacks names each observer by
\* the connection whose handler closure it is.
EmptyMap == [k \in {} |-> k]

NewRoom(gravity) ==
  [ people        |-> EmptyMap,
    gravity       |-> gravity,
    tickerHandle  |-> 0,
    serverTime    |-> 0,
    tickCallbacks |-> << >> ]


\* The registry, the heap and the timer table, threaded through a handler.
Store == [rooms |-> rooms, heap |-> heap, timers |-> timers, err |-> ""]

\* Room.onTick
onTick(S, i, callback) ==
  [S EXCEPT !.heap[i].tickCallbacks = Append(@, callback)]

\* Room.start: setInterval returns a fresh handle, kept in tickerHandle.
start(S, i) ==
  LET h == S.heap[i].tickerHandle + 1
  IN  [S EXCEPT !.heap[i].tickerHandle = h,
                !.timers = @ \cup {<<i, h>>}]

\* A stop that clears nothing.
stop_ClearsNothing(S, i) == S

\* A stop that throws when the handle names no active timer.
stop_ThrowsWhenInactive(S, i) ==
  IF <<i, S.heap[i].tickerHandle>> \in S.timers
    THEN [S EXCEPT !.timers = @ \ {<<i, S.heap[i].tickerHandle>>}]
    ELSE [S EXCEPT !.err = "TypeError"]

\* Room.stop: clearInterval(this.tickerHandle)
stop(S, i) ==
  [S EXCEPT !.timers = @ \ {<<i, S.heap[i].tickerHandle>>}]

\* The Room objects whose loop has an active timer in the timer table T.
Ticking(T) == {t[1] : t \in T}

Has(map, key) == key \in DOMAIN map

\* Map.set and Map.delete on a TLA+ function.
MapSet(map, key, value) ==
  [k \in DOMAIN map \cup {key} |-> IF k = key THEN value ELSE map[k]]

MapDelete(map, key) ==
  [k \in DOMAIN map \ {key} |-> map[k]]

\* ------------------------------------------------------------ registry
\* An addToRoom that returns silently when the room is not registered.
addToRoom_Silent(S, roomId, userId, ref) ==
  IF ~Has(S.rooms, roomId)
    THEN S
    ELSE [S EXCEPT !.heap[S.rooms[roomId]].people = MapSet(@, userId, ref)]

\* addToRoom(roomId, userId, person): throws when the room is not registered.
addToRoom(S, roomId, userId, ref) ==
  IF ~Has(S.rooms, roomId)
    THEN [S EXCEPT !.err = "Room does not exist"]
    ELSE [S EXCEPT !.heap[S.rooms[roomId]].people = MapSet(@, userId, ref)]

\* A removeRoom that stops the loop and keeps the registry entry.
removeRoom_KeepsEntry(S, roomId) ==
  IF Has(S.rooms, roomId) THEN stop(S, S.rooms[roomId]) ELSE S

\* removeRoom(roomId): stop the Room's loop and drop it from the registry.
removeRoom(S, roomId) ==
  IF Has(S.rooms, roomId)
    THEN [stop(S, S.rooms[roomId]) EXCEPT !.rooms = MapDelete(@, roomId)]
    ELSE S

\* A removeFromRoom that removes the Room whenever it is registered.
removeFromRoom_AlwaysRemovesRoom(S, roomId, userId) ==
  IF Has(S.rooms, roomId)
    THEN removeRoom([S EXCEPT !.heap[S.rooms[roomId]].people =
                                 MapDelete(@, userId)], roomId)
    ELSE S

\* A removeFromRoom that deletes the user and never removes the Room.
removeFromRoom_NoTeardown(S, roomId, userId) ==
  IF Has(S.rooms, roomId)
    THEN [S EXCEPT !.heap[S.rooms[roomId]].people = MapDelete(@, userId)]
    ELSE S

\* removeFromRoom(roomId, userId)
removeFromRoom(S, roomId, userId) ==
  IF Has(S.rooms, roomId)
    THEN LET i  == S.rooms[roomId]
             S1 == [S EXCEPT !.heap[i].people = MapDelete(@, userId)]
         IN  IF Cardinality(DOMAIN S1.heap[i].people) = 0
               THEN removeRoom(S1, roomId)
               ELSE S1
    ELSE S

\* ------------------------------------------------------------ messages
\* io.in(room).emit(event, userId, arg)
InRoom(room, event, userId, arg) ==
  [via |-> "in", room |-> room, sender |-> "", event |-> event,
   userId |-> userId, arg |-> arg]

\* socket.broadcast.emit(event, userId, arg): to every socket but the sender.
Broadcast(sender, event, userId, arg) ==
  [via |-> "broadcast", room |-> "", sender |-> sender, event |-> event,
   userId |-> userId, arg |-> arg]

NoArg == [none |-> TRUE]

\* The connections socket.io delivers a message to: the sockets that joined
\* the channel of io.in(room), or every connected socket but the sender of
\* socket.broadcast.
Recipients(m) ==
  IF m.via = "in"
    THEN {d \in Conns : conn[d] = "open" /\ m.room \in channels[d]}
    ELSE {d \in Conns : conn[d] = "open"} \ {m.sender}

\* An uncaught exception ends the Node process: no handler or timer runs after it.
Running == error = ""

\* ------------------------------------------------------------ handlers
\* io.on("connection"): a fresh user id, roomID = "" and a default Person
\* whose username is the user id.
Connect(c) ==
  /\ Running
  /\ conn[c] = "none"
  /\ conn' = [conn EXCEPT ![c] = "open"]
  /\ roomID' = [roomID EXCEPT ![c] = ""]
  /\ person' = [person EXCEPT ![c] = createPerson(c)]
  /\ emitted' = {}
  /\ last' = [op |-> "connection", c |-> c]
  /\ UNCHANGED <<channels, rooms, heap, timers, error>>

\* A 'room' handler that registers the Room it constructs without starting
\* its loop.
CreateRoom_NotStarted(S, c, roomId) ==
  LET i  == Len(S.heap) + 1
      S1 == [S EXCEPT !.heap = Append(@, NewRoom(DEFAULT_GRAVITY))]
      S2 == onTick(S1, i, c)
  IN  [S2 EXCEPT !.rooms = MapSet(@, roomId, i)]

\* The room the 'room' handler constructs: its broadcast observer is the
\* closure of connection c, and its loop is started.
CreateRoom(S, c, roomId) ==
  LET i  == Len(S.heap) + 1
      S1 == [S EXCEPT !.heap = Append(@, NewRoom(DEFAULT_GRAVITY))]
      S2 == start(onTick(S1, i, c), i)
  IN  [S2 EXCEPT !.rooms = MapSet(@, roomId, i)]

\* A 'room' handler that constructs a Room without looking in the registry.
EnsureRoom_NoLookup(S, c, roomId) == CreateRoom(S, c, roomId)

\* A 'room' handler that never constructs a Room.
EnsureRoom_NeverCreates(S, c, roomId) == S

\* The registry part of the 'room' handler, after roomID has been read.
EnsureRoom(S, c, roomId) ==
  IF ~Has(S.rooms, roomId) THEN CreateRoom(S, c, roomId) ELSE S

\* Leave the old room, if they were in one.
LeaveOld(S, c) ==
  IF roomID[c] # "" THEN removeFromRoom(S, roomID[c], c) ELSE S

\* socket.on("room", roomID_)
JoinRoom(c, roomID_) ==
  LET S1 == LeaveOld(Store, c)
      S2 == EnsureRoom(S1, c, roomID_)
      S3 == addToRoom(S2, roomID_, c, c)
  IN  /\ Running
      /\ conn[c] = "open"
      /\ Len(S2.heap) <= MaxRooms
      /\ roomID' = [roomID EXCEPT ![c] = roomID_]
      /\ channels' = [channels EXCEPT ![c] =
            (IF roomID[c] # "" THEN @ \ {roomID[c]} ELSE @) \cup {roomID_}]
      /\ rooms' = S3.rooms
      /\ heap' = S3.heap
      /\ timers' = S3.timers
      /\ error' = S3.err
      /\ emitted' =
            (IF roomID[c] # "" THEN {Broadcast(c, "disconnected", c, NoArg)} ELSE {})
            \cup {Broadcast(c, "connected", c, NoArg)}
      /\ last' = [op |-> "room", c |-> c, room |-> roomID_, from |-> roomID[c],
                   joined |-> channels[c] # {}]
      /\ UNCHANGED <<conn, person>>

\* socket.on("disconnect")
Disconnect(c) ==
  LET S1 == removeFromRoom(Store, roomID[c], c)
  IN  /\ Running
      /\ conn[c] = "open"
      /\ conn' = [conn EXCEPT ![c] = "closed"]
      /\ channels' = [channels EXCEPT ![c] = {}]
      /\ rooms' = S1.rooms
      /\ heap' = S1.heap
      /\ timers' = S1.timers
      /\ emitted' = {Broadcast(c, "disconnected", c, NoArg)}
      /\ last' = [op |-> "disconnect", c |-> c, from |-> roomID[c],
                   joined |-> channels[c] # {}]
      /\ UNCHANGED <<roomID, person, error>>

\* ------------------------------------------------------------ Room.tick
\* A first loop in which gravity acts on every Person.
EnactForces_IgnoresFlying(p, gravity) ==
  [p EXCEPT !.velocity.y = @ - gravity * TICK_LENGTH]

\* First loop of tick: gravity acts on a Person that is not flying.
EnactForces(p, gravity) ==
  IF ~p.flying
    THEN [p EXCEPT !.velocity.y = @ - gravity * TICK_LENGTH]
    ELSE p

\* A clamp that moves the Person to the floor and keeps its velocity.
FloorClamp_KeepsVelocity(p) ==
  IF p.position.y < FLOOR_Y
    THEN [p EXCEPT !.position.y = FLOOR_Y]
    ELSE p

\* Check if they fell through the floor; if they did, move them to ground level.
FloorClamp(p) ==
  IF p.position.y < FLOOR_Y
    THEN [p EXCEPT !.velocity.y = 0, !.position.y = FLOOR_Y]
    ELSE p

\* A second loop that clamps before it integrates.
EnactVelocities_ClampFirst(p) ==
  LET q == FloorClamp(p)
  IN  [q EXCEPT !.position.x = @ + q.velocity.x * TICK_LENGTH,
                !.position.y = @ + q.velocity.y * TICK_LENGTH,
                !.position.z = @ + q.velocity.z * TICK_LENGTH]

\* Second loop of tick, for one Person: integrate, then clamp.
EnactVelocities(p) ==
  FloorClamp([p EXCEPT !.position.x = @ + p.velocity.x * TICK_LENGTH,
                       !.position.y = @ + p.velocity.y * TICK_LENGTH,
                       !.position.z = @ + p.velocity.z * TICK_LENGTH])

\* A loop body runs once for every entry of people; an object stored under
\* k user ids is visited k times by each loop.
RECURSIVE Forces(_, _, _)
Forces(p, gravity, k) ==
  IF k = 0 THEN p ELSE Forces(EnactForces(p, gravity), gravity, k - 1)

RECURSIVE Velocities(_, _)
Velocities(p, k) ==
  IF k = 0 THEN p ELSE Velocities(EnactVelocities(p), k - 1)

Visits(room, c) == Cardinality({u \in DOMAIN room.people : room.people[u] = c})

\* A tick that integrates every position before gravity acts.
Physics_IntegrateFirst(room, P) ==
  [c \in Conns |-> Forces(Velocities(P[c], Visits(room, c)),
                          room.gravity, Visits(room, c))]

\* The Person objects after both loops of a tick of `room`.
Physics(room, P) ==
  [c \in Conns |-> Velocities(Forces(P[c], room.gravity, Visits(room, c)),
                              Visits(room, c))]

\* An observer that broadcasts on every tick.
BroadcastObserver_EveryTick(o, room, R, H, P) ==
  IF Has(R, roomID[o])
    THEN [msgs |-> { InRoom(roomID[o], "person-update", u,
                            P[H[R[roomID[o]]].people[u]])
                     : u \in DOMAIN H[R[roomID[o]]].people },
          err |-> ""]
    ELSE [msgs |-> {}, err |-> "TypeError"]

\* The observer the 'room' handler of connection o registered.  It reads the
\* closure variable roomID of o at the time of the tick.  `room` is the Room
\* passed to it; R, H, P are the registry, heap and Persons it sees.
BroadcastObserver(o, room, R, H, P) ==
  IF room.serverTime % 2 = 0
    THEN IF Has(R, roomID[o])
           THEN [msgs |-> { InRoom(roomID[o], "person-update", u,
                                   P[H[R[roomID[o]]].people[u]])
                            : u \in DOMAIN H[R[roomID[o]]].people },
                 err |-> ""]
           ELSE [msgs |-> {}, err |-> "TypeError"]
    ELSE [msgs |-> {}, err |-> ""]

\* An observer a caller registered with onTick: it reads the Room it is
\* passed, emits nothing and does not throw.
Probe(room, P) == [msgs |-> {}, err |-> ""]

\* fn(this): the call of one entry of tickCallbacks.
Invoke(cb, room, R, H, P) ==
  IF cb \in Probes THEN Probe(room, P) ELSE BroadcastObserver(cb, room, R, H, P)

\* tickCallbacks.forEach: in registration order, until one throws.  calls
\* lists the observers invoked, each with the serverTime and the Persons
\* that the Room it was passed showed.
RECURSIVE RunCallbacks(_, _, _, _, _)
RunCallbacks(cbs, room, R, H, P) ==
  IF cbs = << >>
    THEN [msgs |-> {}, err |-> "", calls |-> << >>]
    ELSE LET r == Invoke(Head(cbs), room, R, H, P)
             call == [cb |-> Head(cbs), time |-> room.serverTime, seen |-> P]
         IN  IF r.err # ""
               THEN [msgs |-> r.msgs, err |-> r.err, calls |-> <<call>>]
               ELSE LET rest == RunCallbacks(Tail(cbs), room, R, H, P)
                    IN  [msgs |-> r.msgs \cup rest.msgs, err |-> rest.err,
                         calls |-> <<call>> \o rest.calls]

\* A tick that counts itself twice.
Ticked_Twice(room) == [room EXCEPT !.serverTime = @ + 2]

\* The Room after the physics of one tick: serverTime += 1.
Ticked(room) == [room EXCEPT !.serverTime = @ + 1]

InBounds(p) ==
  /\ p.position.y \in -MaxY..MaxY
  /\ p.velocity.y \in -MaxY..MaxY

\* A tick that invokes the observers before it moves any Person.
Tick_ObserversFirst(i) ==
  LET P  == Physics(heap[i], person)
      H  == [heap EXCEPT ![i] = Ticked(@)]
      cb == RunCallbacks(heap[i].tickCallbacks, heap[i], rooms, heap, person)
  IN  /\ Running
      /\ i \in Ticking(timers)
      /\ heap[i].serverTime < MaxTime
      /\ \A c \in Conns : InBounds(P[c])
      /\ person' = P
      /\ heap' = H
      /\ emitted' = cb.msgs
      /\ error' = cb.err
      /\ last' = [op |-> "tick", i |-> i, before |-> person,
                   calls |-> cb.calls,
                   n |-> IF last.op = "tick" /\ last.i = i
                           THEN last.n + 1 ELSE 1,
                   start |-> IF last.op = "tick" /\ last.i = i
                               THEN last.start ELSE person]
      /\ UNCHANGED <<conn, roomID, channels, rooms, timers>>

\* The timer of heap[i] fires: Room.tick.
Tick(i) ==
  LET P  == Physics(heap[i], person)
      H  == [heap EXCEPT ![i] = Ticked(@)]
      cb == RunCallbacks(H[i].tickCallbacks, H[i], rooms, H, P)
  IN  /\ Running
      /\ i \in Ticking(timers)
      /\ heap[i].serverTime < MaxTime
      /\ \A c \in Conns : InBounds(P[c])
      /\ person' = P
      /\ heap' = H
      /\ emitted' = cb.msgs
      /\ error' = cb.err
      /\ last' = [op |-> "tick", i |-> i, before |-> person,
                   calls |-> cb.calls,
                   n |-> IF last.op = "tick" /\ last.i = i
                           THEN last.n + 1 ELSE 1,
                   start |-> IF last.op = "tick" /\ last.i = i
                               THEN last.start ELSE person]
      /\ UNCHANGED <<conn, roomID, channels, rooms, timers>>

\* ------------------------------------------------------------ events
\* socket.on("set-flying", flying)
SetFlying(c, flying) ==
  /\ Running
  /\ conn[c] = "open"
  /\ person' = [person EXCEPT ![c].flying = flying]
  /\ emitted' = {}
  /\ last' = [op |-> "set-flying", c |-> c]
  /\ UNCHANGED <<conn, roomID, channels, rooms, heap, timers, error>>

\* The parameter default of the 'jump' handler.
JumpSpeed(args) == IF Len(args) = 0 THEN DEFAULT_JUMP_SPEED ELSE args[1]

\* A jump that adds the speed to the vertical velocity.
Jumped_Additive(p, args) == [p EXCEPT !.velocity.y = @ + JumpSpeed(args)]

\* The body of the 'jump' handler: person.velocity.y = speed.
Jumped(p, args) == [p EXCEPT !.velocity.y = JumpSpeed(args)]

\* socket.on("jump", speed = 2)
Jump(c, args) ==
  /\ Running
  /\ conn[c] = "open"
  /\ person' = [person EXCEPT ![c] = Jumped(@, args)]
  /\ emitted' = {}
  /\ last' = [op |-> "jump", c |-> c, args |-> args]
  /\ UNCHANGED <<conn, roomID, channels, rooms, heap, timers, error>>

\* socket.on("fly", magnitude)
Fly(c, magnitude) ==
  /\ Running
  /\ conn[c] = "open"
  /\ person[c].position.y + magnitude \in -MaxY..MaxY
  /\ person' = [person EXCEPT ![c].position.y = @ + magnitude]
  /\ emitted' = {}
  /\ last' = [op |-> "fly", c |-> c]
  /\ UNCHANGED <<conn, roomID, channels, rooms, heap, timers, error>>

\* socket.on("set-yaw", yaw)
SetYaw(c, yaw) ==
  /\ Running
  /\ conn[c] = "open"
  /\ person' = [person EXCEPT ![c].yaw = yaw]
  /\ emitted' = {Broadcast(c, "person-yaw", c, [angle |-> yaw])}
  /\ last' = [op |-> "set-yaw", c |-> c]
  /\ UNCHANGED <<conn, roomID, channels, rooms, heap, timers, error>>

\* socket.on("set-pitch", pitch)
SetPitch(c, pitch) ==
  /\ Running
  /\ conn[c] = "open"
  /\ person' = [person EXCEPT ![c].pitch = pitch]
  /\ emitted' = {Broadcast(c, "person-pitch", c, [angle |-> pitch])}
  /\ last' = [op |-> "set-pitch", c |-> c]
  /\ UNCHANGED <<conn, roomID, channels, rooms, heap, timers, error>>

\* socket.on("color", color)
Color(c, color) ==
  /\ Running
  /\ conn[c] = "open"
  /\ person' = [person EXCEPT ![c].color = color]
  /\ emitted' = {}
  /\ last' = [op |-> "color", c |-> c]
  /\ UNCHANGED <<conn, roomID, channels, rooms, heap, timers, error>>

\* socket.on("shape", shape)
Shape(c, shape) ==
  /\ Running
  /\ conn[c] = "open"
  /\ person' = [person EXCEPT ![c].shape = shape]
  /\ emitted' = {}
  /\ last' = [op |-> "shape", c |-> c]
  /\ UNCHANGED <<conn, roomID, channels, rooms, heap, timers, error>>

\* Math.cos and Math.sin of an angle that is a whole number of quarter turns.
Cos(yaw) ==
  LET q == yaw % (2 * PI)
  IN  IF q = 0 THEN 1 ELSE IF q = PI THEN -1 ELSE 0

Sin(yaw) ==
  LET q == yaw % (2 * PI)
  IN  IF 2 * q = PI THEN 1 ELSE IF 2 * q = 3 * PI THEN -1 ELSE 0

InReach(p) ==
  /\ p.position.x \in -MaxStep..MaxStep
  /\ p.position.z \in -MaxStep..MaxStep

\* The body of the 'move-forwards-backwards' handler.
MovedForwardsBackwards(p, magnitude) ==
  [p EXCEPT !.position.z = @ + magnitude * Cos(p.yaw),
            !.position.x = @ - magnitude * Sin(p.yaw)]

\* socket.on("move-forwards-backwards", magnitude)
MoveForwardsBackwards(c, magnitude) ==
  /\ Running
  /\ conn[c] = "open"
  /\ InReach(MovedForwardsBackwards(person[c], magnitude))
  /\ person' = [person EXCEPT ![c] = MovedForwardsBackwards(@, magnitude)]
  /\ emitted' = {}
  /\ last' = [op |-> "move-forwards-backwards", c |-> c]
  /\ UNCHANGED <<conn, roomID, channels, rooms, heap, timers, error>>

\* A move to the right or left that also drops the Person to the floor.
MovedRightLeft_DropsToFloor(p, magnitude) ==
  [p EXCEPT !.position.z = @ + magnitude * Sin(p.yaw),
            !.position.x = @ + magnitude * Cos(p.yaw),
            !.position.y = FLOOR_Y]

\* The body of the 'move-right-left' handler.
MovedRightLeft(p, magnitude) ==
  [p EXCEPT !.position.z = @ + magnitude * Sin(p.yaw),
            !.position.x = @ + magnitude * Cos(p.yaw)]

\* socket.on("move-right-left", magnitude)
MoveRightLeft(c, magnitude) ==
  /\ Running
  /\ conn[c] = "open"
  /\ InReach(MovedRightLeft(person[c], magnitude))
  /\ person' = [person EXCEPT ![c] = MovedRightLeft(@, magnitude)]
  /\ emitted' = {}
  /\ last' = [op |-> "move-right-left", c |-> c]
  /\ UNCHANGED <<conn, roomID, channels, rooms, heap, timers, error>>

\* The body of the 'rotate-counterclockwise' handler, on the yaw.  The left
\* operand of % is positive where it is taken, so the remainder of
\* JavaScript is the modulus.
Rotated(yaw, radians) ==
  LET y == yaw + radians
  IN  IF y > PI * 2 THEN (y % PI) * 2 ELSE y

\* socket.on("rotate-counterclockwise", radians)
RotateCounterclockwise(c, radians) ==
  /\ Running
  /\ conn[c] = "open"
  /\ Rotated(person[c].yaw, radians) >= -MaxTurn
  /\ person' = [person EXCEPT ![c].yaw = Rotated(@, radians)]
  /\ emitted' = {}
  /\ last' = [op |-> "rotate-counterclockwise", c |-> c, radians |-> radians]
  /\ UNCHANGED <<conn, roomID, channels, rooms, heap, timers, error>>

\* rooms[roomID]: a property read on the Map object, not Map.get.  The
\* entries of a Map are not properties of it, so the read never yields a Room.
PropertyOf(map, key) == "undefined"

\* socket.on("username", username)
Username(c, username) ==
  /\ Running
  /\ conn[c] = "open"
  /\ IF roomID[c] # "" /\ PropertyOf(rooms, roomID[c]) = "undefined"
       THEN /\ error' = "TypeError"
            /\ emitted' = {}
       ELSE /\ error' = error
            /\ emitted' = {Broadcast(c, "username", c, [text |-> username])}
  /\ last' = [op |-> "username", c |-> c, text |-> username]
  /\ UNCHANGED <<conn, roomID, person, channels, rooms, heap, timers>>

Init ==
  /\ conn = [c \in Conns |-> "none"]
  /\ roomID = [c \in Conns |-> ""]
  /\ person = [c \in Conns |-> createPerson(c)]
  /\ channels = [c \in Conns |-> {}]
  /\ rooms = EmptyMap
  /\ heap = << >>
  /\ timers = {}
  /\ emitted = {}
  /\ error = ""
  /\ last = [op |-> "init"]

\* A direct call addToRoom(roomId, userId, person) by a caller that catches
\* what it throws; ref names the Person object passed.
AddToRoomCall(roomId, userId, ref) ==
  LET S1 == addToRoom(Store, roomId, userId, ref)
  IN  /\ Running
      /\ rooms' = S1.rooms
      /\ heap' = S1.heap
      /\ timers' = S1.timers
      /\ emitted' = {}
      /\ last' = [op |-> "addToRoom", roomId |-> roomId, userId |-> userId,
                   ref |-> ref, threw |-> S1.err]
      /\ UNCHANGED <<conn, roomID, person, channels, error>>

\* A direct call removeFromRoom(roomId, userId).  member records whether
\* the user id was in the people of a Room registered under roomId.
RemoveFromRoomCall(roomId, userId) ==
  LET S1 == removeFromRoom(Store, roomId, userId)
  IN  /\ Running
      /\ rooms' = S1.rooms
      /\ heap' = S1.heap
      /\ timers' = S1.timers
      /\ emitted' = {}
      /\ last' = [op |-> "removeFromRoom", roomId |-> roomId,
                   userId |-> userId, threw |-> S1.err,
                   member |-> /\ Has(rooms, roomId)
                              /\ userId \in DOMAIN heap[rooms[roomId]].people]
      /\ UNCHANGED <<conn, roomID, person, channels, error>>

\* new Room(gravity), by a caller that keeps the Room out of the registry.
NewRoomCall(gravity) ==
  /\ Running
  /\ heap' = Append(heap, NewRoom(gravity))
  /\ emitted' = {}
  /\ last' = [op |-> "new", i |-> Len(heap) + 1]
  /\ UNCHANGED <<conn, roomID, person, channels, rooms, timers, error>>

\* room.people.set(userId, person) on the Room heap[i].
PeopleSetCall(i, userId) ==
  /\ Running
  /\ heap' = [heap EXCEPT ![i].people = MapSet(@, userId, userId)]
  /\ emitted' = {}
  /\ last' = [op |-> "people.set", i |-> i, userId |-> userId]
  /\ UNCHANGED <<conn, roomID, person, channels, rooms, timers, error>>

\* A direct call room.onTick(callback) on the Room heap[i].
OnTickCall(i, callback) ==
  LET S1 == onTick(Store, i, callback)
  IN  /\ Running
      /\ Len(heap[i].tickCallbacks) < MaxObservers
      /\ heap' = S1.heap
      /\ emitted' = {}
      /\ last' = [op |-> "onTick", i |-> i, callback |-> callback]
      /\ UNCHANGED <<conn, roomID, person, channels, rooms, timers, error>>

\* A direct call room.start() on the Room heap[i].
StartCall(i) ==
  LET S1 == start(Store, i)
  IN  /\ Running
      /\ heap[i].tickerHandle < MaxStarts
      /\ heap' = S1.heap
      /\ timers' = S1.timers
      /\ emitted' = {}
      /\ last' = [op |-> "start", i |-> i]
      /\ UNCHANGED <<conn, roomID, person, channels, rooms, error>>

\* A direct call room.stop() on the Room heap[i], by a caller that catches
\* what it throws.  active records whether tickerHandle named an active
\* timer.
StopCall(i) ==
  LET S1 == stop(Store, i)
  IN  /\ Running
      /\ heap' = S1.heap
      /\ timers' = S1.timers
      /\ emitted' = {}
      /\ last' = [op |-> "stop", i |-> i, threw |-> S1.err,
                   active |-> <<i, heap[i].tickerHandle>> \in timers]
      /\ UNCHANGED <<conn, roomID, person, channels, rooms, error>>

\* Connections, room changes and timers, with the room ids drawn from ids.
Lifecycle(ids) ==
  \/ \E c \in Conns : Connect(c)
  \/ \E c \in Conns, r \in ids : JoinRoom(c, r)
  \/ \E c \in Conns : Disconnect(c)
  \/ \E i \in 1..MaxRooms : i <= Len(heap) /\ Tick(i)

\* The registry and the rooms' loops under every room id, with renames.
Next ==
  \/ Lifecycle(RoomIds)
  \/ \E c \in Conns, username \in Names : Username(c, username)

Spec == Init /\ [][Next]_vars

\* The physics of one room id under the vertical movement events.
NextPhysics ==
  \/ Lifecycle(PhysicsRoomIds)
  \/ \E c \in Movers, flying \in BOOLEAN : SetFlying(c, flying)
  \/ \E c \in Movers, args \in JumpArgs : Jump(c, args)
  \/ \E c \in Movers, magnitude \in FlyMagnitudes : Fly(c, magnitude)

SpecPhysics == Init /\ [][NextPhysics]_vars

\* Two room ids under the angle events and their notifications.
NextNotify ==
  \/ Lifecycle(NotifyRoomIds)
  \/ \E c \in Movers, yaw \in Angles : SetYaw(c, yaw)
  \/ \E c \in Movers, pitch \in Angles : SetPitch(c, pitch)

SpecNotify == Init /\ [][NextNotify]_vars

\* One connection and one room id under the rotations.
NextYaw ==
  \/ Lifecycle(PhysicsRoomIds)
  \/ \E c \in Movers, radians \in Rotations : RotateCounterclockwise(c, radians)

SpecYaw == Init /\ [][NextYaw]_vars

\* One room id under every event that changes the sender's Person, each
\* with one argument.  One connection sends the events that move its Person
\* and the other those that turn or paint it; a connection joins once and
\* none closes.
NextEvents ==
  \/ \E c \in Conns : Connect(c)
  \/ \E c \in {d \in Conns : channels[d] = {}}, r \in PhysicsRoomIds :
        JoinRoom(c, r)
  \/ \E i \in 1..MaxRooms : i <= Len(heap) /\ Tick(i)
  \/ \E c \in Movers : SetFlying(c, TRUE)
  \/ \E c \in Movers : Jump(c, <<-1>>)
  \/ \E c \in Movers : Fly(c, 1)
  \/ \E c \in Movers : MoveForwardsBackwards(c, 1)
  \/ \E c \in Movers : MoveRightLeft(c, 1)
  \/ \E c \in Turners : RotateCounterclockwise(c, 1)
  \/ \E c \in Turners, yaw \in Angles : SetYaw(c, yaw)
  \/ \E c \in Turners, pitch \in Angles : SetPitch(c, pitch)
  \/ \E c \in Turners, color \in Colors : Color(c, color)
  \/ \E c \in Turners, shape \in Shapes : Shape(c, shape)

SpecEvents == Init /\ [][NextEvents]_vars

\* Two room ids under the fly events.
NextFloor ==
  \/ Lifecycle(NotifyRoomIds)
  \/ \E c \in Movers, magnitude \in FlyMagnitudes : Fly(c, magnitude)

SpecFloor == Init /\ [][NextFloor]_vars

\* The loop of a Room on its own: a Room a caller constructs, fills,
\* observes, starts and stops.
NextLoop ==
  \/ Len(heap) + 1 \in HarnessRooms /\ NewRoomCall(DEFAULT_GRAVITY)
  \/ \E i \in HarnessRooms, c \in Conns : i <= Len(heap) /\ PeopleSetCall(i, c)
  \/ \E i \in HarnessRooms, p \in Probes : i <= Len(heap) /\ OnTickCall(i, p)
  \/ \E i \in HarnessRooms : i <= Len(heap) /\ StartCall(i)
  \/ \E i \in HarnessRooms : i <= Len(heap) /\ StopCall(i)
  \/ \E i \in HarnessRooms : i <= Len(heap) /\ Tick(i)

SpecLoop == Init /\ [][NextLoop]_vars

\* The observers of a Room on its own: a started Room a caller constructs,
\* fills and observes, whose Person a connected client makes jump.
NextObservers ==
  \/ Len(heap) + 1 \in HarnessRooms /\ NewRoomCall(DEFAULT_GRAVITY)
  \/ \E i \in HarnessRooms, c \in Conns : i <= Len(heap) /\ PeopleSetCall(i, c)
  \/ \E i \in HarnessRooms, p \in Probes : i <= Len(heap) /\ OnTickCall(i, p)
  \/ \E i \in HarnessRooms : i <= Len(heap) /\ StartCall(i)
  \/ \E i \in HarnessRooms : i <= Len(heap) /\ Tick(i)
  \/ \E c \in Conns : Connect(c)
  \/ \E c \in Conns, args \in JumpArgs : Jump(c, args)

SpecObservers == Init /\ [][NextObservers]_vars

\* The registry functions called directly, between the handlers' steps.
NextOps ==
  \/ Lifecycle(OpsRoomIds)
  \/ \E roomId \in RoomIds, userId \in Conns, ref \in Conns :
        AddToRoomCall(roomId, userId, ref)
  \/ \E roomId \in RoomIds, userId \in Conns :
        RemoveFromRoomCall(roomId, userId)

SpecOps == Init /\ [][NextOps]_vars

\* ================================================================ claims
Insts == 1..Len(heap)

\* The Room objects the registry R holds.
Registered(R) == {R[r] : r \in DOMAIN R}

Occupants(room) == DOMAIN room.people

\* C1: Room teardown.  Whenever a step leaves a Room's people empty, that
\* Room has no active timer and no registry entry after the same step; and a
\* Room that is already empty is not touched by any later step: it does not
\* tick (its serverTime and every other field stay as they are), so none of
\* its observers runs.
C1_Teardown ==
  [][\A i \in Insts :
       Occupants(heap'[i]) = {} =>
         /\ i \notin Ticking(timers')
         /\ i \notin Registered(rooms')
         /\ Occupants(heap[i]) = {} =>
              /\ heap'[i] = heap[i]
              /\ ~(last'.op = "tick" /\ last'.i = i)]_vars

\* C1 witness: a Room that ticked has been torn down and another Room has
\* ticked since.
C1_Witness ==
  /\ last.op = "tick"
  /\ \E i \in Insts : /\ Occupants(heap[i]) = {}
                      /\ heap[i].serverTime > 0
                      /\ i # last.i

\* C2: at most one Room per room id.  Every Room whose loop runs is the
\* value of exactly one registry entry, and every connection that has joined
\* is in the people of the Room registered under its current room id, so all
\* joiners of one id share one Room.
C2_OneRoomPerId ==
  /\ \A i \in Ticking(timers) :
       Cardinality({r \in DOMAIN rooms : rooms[r] = i}) = 1
  /\ \A c \in Conns :
       (conn[c] = "open" /\ channels[c] # {}) =>
         /\ Has(rooms, roomID[c])
         /\ c \in Occupants(heap[rooms[roomID[c]]])

\* C2 witness: both connections joined the same id and one Room was built.
C2_Witness ==
  /\ Len(heap) = 1
  /\ Occupants(heap[1]) = Conns
  /\ roomID["u1"] = roomID["u2"]

\* The room id a registered Room is registered under.
IdOf(i) == CHOOSE r \in DOMAIN rooms : rooms[r] = i

\* C3: per-tick broadcast targets the ticking room.  After a tick of Room i
\* that leaves its serverTime even, the messages emitted are exactly one
\* person-update per occupant of Room i, carrying that occupant's Person,
\* sent to the channel of the id Room i is registered under.
C3_BroadcastTargetsTickingRoom ==
  (last.op = "tick" /\ heap[last.i].serverTime % 2 = 0) =>
    /\ error = ""
    /\ emitted = { InRoom(IdOf(last.i), "person-update", u,
                          person[heap[last.i].people[u]])
                   : u \in Occupants(heap[last.i]) }

\* The Person objects stored in a Room.
PersonsOf(room) == {room.people[u] : u \in Occupants(room)}

\* C4: floor invariant.  Right after a tick of a Room, every Person of that
\* Room has position.y >= FLOOR_Y, whatever fly, jump and set-flying events
\* came before the tick.
C4_FloorInvariant ==
  last.op = "tick" =>
    \A c \in PersonsOf(heap[last.i]) : person[c].position.y >= FLOOR_Y

\* C4 witness: a tick found a Person of its Room below the floor.
C4_Witness ==
  /\ last.op = "tick"
  /\ \E c \in PersonsOf(heap[last.i]) :
       /\ last.before[c].position.y < FLOOR_Y
       /\ person[c].position.y = FLOOR_Y

\* velocity.y and position.y of a Person after the gravity and integration
\* steps of one tick, from its fields b before the tick.
VelocityAfterGravity(b, gravity) ==
  IF b.flying THEN b.velocity.y ELSE b.velocity.y - gravity * TICK_LENGTH

IntegratedY(b, gravity) ==
  b.position.y + VelocityAfterGravity(b, gravity) * TICK_LENGTH

\* C5: the floor clamp zeroes vertical velocity, per Person.  After a tick,
\* a Person of the Room whose integrated position.y is below 0 has position.y
\* 0 and velocity.y 0; a Person whose integrated position.y is >= 0 has that
\* position.y and the velocity.y of this tick.
C5_ClampZeroesVelocity ==
  last.op = "tick" =>
    \A c \in PersonsOf(heap[last.i]) :
      LET b == last.before[c]
          g == heap[last.i].gravity
      IN  IF IntegratedY(b, g) < FLOOR_Y
            THEN /\ person[c].position.y = FLOOR_Y
                 /\ person[c].velocity.y = 0
            ELSE /\ person[c].position.y = IntegratedY(b, g)
                 /\ person[c].velocity.y = VelocityAfterGravity(b, g)

\* C5 witness: in one tick one Person of the Room was clamped and another,
\* in the air, was not.
C5_Witness ==
  /\ last.op = "tick"
  /\ \E c, d \in PersonsOf(heap[last.i]) :
       /\ IntegratedY(last.before[c], heap[last.i].gravity) < FLOOR_Y
       /\ VelocityAfterGravity(last.before[c], heap[last.i].gravity) < 0
       /\ person[c].velocity.y = 0
       /\ IntegratedY(last.before[d], heap[last.i].gravity) > FLOOR_Y
       /\ person[d].velocity.y # 0

\* C6: serverTime is a monotonic tick counter.  A Room is constructed with
\* serverTime 0; a tick of a Room adds exactly 1 to its serverTime; every
\* other step leaves the serverTime of every Room as it is; Rooms are never
\* dropped from the heap, so no counter restarts.
C6_ServerTimeMonotonic ==
  [][/\ Len(heap') >= Len(heap)
     /\ \A i \in 1..Len(heap') :
          IF i > Len(heap)
            THEN heap'[i].serverTime = 0
            ELSE heap'[i].serverTime =
                   heap[i].serverTime +
                     (IF last'.op = "tick" /\ last'.i = i THEN 1 ELSE 0)]_vars

\* C6 witness: a Room has ticked twice and a later Room has been constructed
\* at 0.
C6_Witness ==
  /\ Len(heap) = 2
  /\ heap[1].serverTime = 2
  /\ heap[2].serverTime = 0

\* C7: fresh room after teardown.  When a connection joins a room id that is
\* not registered, or re-joins the id of a Room of which it is the only
\* occupant (the handler tears that Room down first), the id is registered
\* afterwards to a Room constructed in this step, with serverTime 0 and
\* people holding only the joiner.
C7_FreshRoomAfterTeardown ==
  [][last'.op = "room" =>
       LET r == last'.room
           c == last'.c
       IN  (\/ ~Has(rooms, r)
            \/ /\ roomID[c] = r
               /\ r # ""
               /\ Occupants(heap[rooms[r]]) \subseteq {c})
           => /\ Has(rooms', r)
              /\ rooms'[r] > Len(heap)
              /\ heap'[rooms'[r]].serverTime = 0
              /\ Occupants(heap'[rooms'[r]]) = {c}]_vars

\* C7 witness: the only occupant of room "A", whose Room had ticked, joined
\* "A" again and is now alone in a second Room at serverTime 0.
C7_Witness ==
  /\ last.op = "room"
  /\ last.room = "A"
  /\ last.from = "A"
  /\ Len(heap) = 2
  /\ heap[1].serverTime > 0
  /\ Occupants(heap[1]) = {}
  /\ rooms["A"] = 2
  /\ heap[2].serverTime = 0

\* C8: the Person is dropped on leave or disconnect.  No registered Room
\* holds a Person under the id of a closed connection; and right after a
\* connection that had joined switches to another room id, the Room
\* registered under the id it left does not hold its Person.
C8_PersonDroppedOnLeave ==
  /\ \A c \in Conns : conn[c] = "closed" =>
       \A r \in DOMAIN rooms : c \notin Occupants(heap[rooms[r]])
  /\ (last.op = "room" /\ last.joined /\ last.from # last.room) =>
       (Has(rooms, last.from) =>
          last.c \notin Occupants(heap[rooms[last.from]]))

\* The connections that are in some registered Room.
InARoom(c) == \E r \in DOMAIN rooms : c \in Occupants(heap[rooms[r]])

\* C9: username event.  After username(text) from an occupant that is in a
\* room, its Person's username is text, a username(occupantId, text)
\* notification has been emitted to the others, and no error was raised.
C9_UsernameEvent ==
  (last.op = "username" /\ InARoom(last.c)) =>
    /\ error = ""
    /\ person[last.c].username = last.text
    /\ Broadcast(last.c, "username", last.c, [text |-> last.text]) \in emitted

\* C10: addToRoom.  A call on a room id that is not registered throws "Room
\* does not exist" and leaves the registry and every Room as they were; a
\* call on a registered id throws nothing, stores the given Person under the
\* user id in that Room and changes no other entry, no other Room and not
\* the registry.
C10_AddToRoom ==
  [][last'.op = "addToRoom" =>
       LET r == last'.roomId
       IN  IF ~Has(rooms, r)
             THEN /\ last'.threw = "Room does not exist"
                  /\ rooms' = rooms
                  /\ heap' = heap
             ELSE /\ last'.threw = ""
                  /\ rooms' = rooms
                  /\ heap'[rooms[r]].people = MapSet(heap[rooms[r]].people,
                                                     last'.userId, last'.ref)
                  /\ \A i \in Insts : i # rooms[r] => heap'[i] = heap[i]
                  /\ Len(heap') = Len(heap)]_vars

\* C10 witness: one call was refused for a missing room while a Room exists,
\* the Room untouched.
C10_Witness ==
  /\ last.op = "addToRoom"
  /\ last.threw = "Room does not exist"
  /\ Len(heap) >= 1
  /\ Has(rooms, "A")

\* A call on a registered room stored a Person object under another id.
C10_WitnessStored ==
  /\ last.op = "addToRoom"
  /\ last.threw = ""
  /\ last.userId # last.ref
  /\ heap[rooms[last.roomId]].people[last.userId] = last.ref

\* C11: removeFromRoom is a no-op on a missing room or a missing occupant.
\* A call with a room id that is not registered, or with a user id that is
\* not in the people of the Room registered under it, throws nothing and
\* leaves the registry, every Room (its people included) and the timer table
\* as they were.
C11_RemoveFromRoomNoOp ==
  [][(last'.op = "removeFromRoom" /\ ~last'.member) =>
       /\ last'.threw = ""
       /\ error' = error
       /\ rooms' = rooms
       /\ heap' = heap
       /\ timers' = timers]_vars

\* C11 witness: a call named a registered, running Room and a user id that
\* is not in it.
C11_Witness ==
  /\ last.op = "removeFromRoom"
  /\ ~last.member
  /\ Has(rooms, last.roomId)
  /\ rooms[last.roomId] \in Ticking(timers)

\* A call named a room id that is not registered while a Room exists.
C11_WitnessMissingRoom ==
  /\ last.op = "removeFromRoom"
  /\ ~Has(rooms, last.roomId)
  /\ rooms # EmptyMap

\* The point events emitted on behalf of an occupant.
PointEvents == {"connected", "disconnected", "person-yaw", "person-pitch"}

\* The room id a point event of the last step is about: the id left, for
\* "disconnected", and the sender's current id otherwise.
EventRoom(m) ==
  IF m.event = "disconnected" THEN last.from ELSE roomID[m.sender]

\* The other connections in the Room registered under room id r.
Others(c, r) ==
  IF Has(rooms, r)
    THEN {d \in Occupants(heap[rooms[r]]) : conn[d] = "open"} \ {c}
    ELSE {}

\* The sender of a point event was an occupant of the room the event is
\* about.
WasOccupant(m) ==
  IF m.event = "disconnected" THEN last.joined ELSE channels[m.sender] # {}

\* C12: room-scoped notifications.  Every point event emitted on behalf of
\* an occupant is delivered to exactly the other connections in that
\* occupant's room: to none in a different room or in no room.
C12_RoomScopedNotifications ==
  \A m \in emitted :
    (m.event \in PointEvents /\ WasOccupant(m)) =>
      Recipients(m) = Others(m.sender, EventRoom(m))

\* The fields createPerson sets that a join could show changed.
HasDefaults(p) ==
  /\ p.position = [x |-> 0, y |-> 0, z |-> 0]
  /\ p.velocity = [x |-> 0, y |-> 0, z |-> 0]
  /\ p.yaw = 0
  /\ p.pitch = 0
  /\ p.flying = FALSE

\* C13: Person starts with defaults on first join.  When the 'room' handler
\* has added a connection to its first room, the Person stored for it has
\* position (0,0,0), velocity (0,0,0), yaw 0, pitch 0 and flying false,
\* whatever events the connection sent before.
C13_DefaultsOnFirstJoin ==
  (last.op = "room" /\ ~last.joined /\ error = "") =>
    /\ last.c \in Occupants(heap[rooms[last.room]])
    /\ HasDefaults(person[heap[rooms[last.room]].people[last.c]])

\* The Persons of the Room whose tick was the last step, flying when the
\* run of consecutive ticks began.
FlyingInStreak ==
  {c \in PersonsOf(heap[last.i]) : last.start[c].flying}

\* A tick of the run of last.n consecutive ticks clamps a flying Person
\* that began the run as b: some integrated position.y is below the floor.
FlyingClamped(b) ==
  \E k \in 1..last.n :
    b.position.y + k * b.velocity.y * TICK_LENGTH < FLOOR_Y

\* C14 as stated: ticks never change velocity.y of a flying Person.  After
\* any number of consecutive ticks with no event between them, a flying
\* Person of the Room has the velocity.y it had before those ticks.
C14_FlyingVelocityUntouched ==
  last.op = "tick" =>
    \A c \in FlyingInStreak : person[c].velocity.y = last.start[c].velocity.y

\* C14, amended: ticks change velocity.y of a flying Person only through the
\* floor clamp.  After any number of consecutive ticks with no event between
\* them, a flying Person of the Room has the velocity.y it had before those
\* ticks, unless one of those ticks integrated its position.y below FLOOR_Y:
\* then its velocity.y is 0.
C14_FlyingVelocityOnlyClamped ==
  last.op = "tick" =>
    \A c \in FlyingInStreak :
      person[c].velocity.y =
        IF FlyingClamped(last.start[c]) THEN 0 ELSE last.start[c].velocity.y

\* Two consecutive ticks left a flying Person its nonzero velocity.y.
C14_Witness ==
  /\ last.op = "tick"
  /\ last.n >= 2
  /\ \E c \in FlyingInStreak :
       /\ last.start[c].velocity.y # 0
       /\ ~FlyingClamped(last.start[c])
       /\ person[c].velocity.y = last.start[c].velocity.y

\* A tick clamped a flying Person and zeroed its nonzero velocity.y.
C14_WitnessClamped ==
  /\ last.op = "tick"
  /\ \E c \in FlyingInStreak :
       /\ last.start[c].velocity.y # 0
       /\ FlyingClamped(last.start[c])
       /\ person[c].velocity.y = 0

\* position.y of a Person that began as b, after k ticks under gravity g
\* none of which clamped it: each tick adds the velocity it has just reduced.
FallenY(b, g, k) ==
  b.position.y + k * b.velocity.y * TICK_LENGTH
    - (g * TICK_LENGTH * TICK_LENGTH * k * (k + 1)) \div 2

\* The Persons of the Room whose tick was the last step that were not
\* flying when the run of consecutive ticks began and that no tick of the
\* run has clamped.
FallingInStreak ==
  {c \in PersonsOf(heap[last.i]) :
     /\ ~last.start[c].flying
     /\ \A k \in 1..last.n :
          FallenY(last.start[c], heap[last.i].gravity, k) >= FLOOR_Y}

\* C15: gravity accumulation.  After N consecutive ticks with no event
\* between them and no floor clamp, a Person that is not flying has
\* velocity.y equal to its initial value minus gravity * TICK_LENGTH * N,
\* and the last tick added to position.y the velocity.y it had just reduced,
\* so that position.y has fallen by the sum of the N reduced velocities.
C15_GravityAccumulation ==
  last.op = "tick" =>
    \A c \in FallingInStreak :
      /\ person[c].velocity.y =
           last.start[c].velocity.y
             - heap[last.i].gravity * TICK_LENGTH * last.n
      /\ person[c].position.y =
           last.before[c].position.y + person[c].velocity.y * TICK_LENGTH
      /\ person[c].position.y =
           FallenY(last.start[c], heap[last.i].gravity, last.n)

\* Two consecutive ticks reduced the velocity.y of a Person that stayed
\* above the floor.
C15_Witness ==
  /\ last.op = "tick"
  /\ last.n >= 2
  /\ \E c \in FallingInStreak :
       /\ last.start[c].velocity.y > 0
       /\ person[c].velocity.y < last.start[c].velocity.y
       /\ person[c].position.y > last.start[c].position.y

\* C17: jump overwrites vertical velocity.  jump(speed) sets the sender's
\* velocity.y to speed, or to 2 when speed is omitted, whatever its
\* velocity.y, position and flying flag were, and changes no other field of
\* that Person and no other Person.
C17_JumpOverwrites ==
  [][last'.op = "jump" =>
       /\ person'[last'.c].velocity.y =
            (IF last'.args = << >> THEN 2 ELSE last'.args[1])
       /\ person' = [person EXCEPT ![last'.c].velocity.y =
                                     person'[last'.c].velocity.y]
       /\ error' = error]_vars

\* A jump replaced a different, nonzero velocity.y of a flying Person that
\* was off the floor.
C17_Witness ==
  /\ last.op = "jump"
  /\ last.args = <<-1>>
  /\ person[last.c].velocity.y = -1
  /\ person[last.c].flying
  /\ person[last.c].position.y > 0

\* A jump without a speed replaced a nonzero velocity.y.
C17_WitnessDefault ==
  /\ last.op = "jump"
  /\ last.args = << >>
  /\ person[last.c].velocity.y = 2
  /\ person[last.c].position.y # 0

\* C19: empty rooms are never retained.  After a 'room' handler (a join,
\* with the leave of the old room) or a 'disconnect' handler has run, every
\* Room in the registry has at least one entry in people.
C19_NoEmptyRoomRetained ==
  last.op \in {"room", "disconnect"} =>
    \A r \in DOMAIN rooms : Occupants(heap[rooms[r]]) # {}

\* A disconnect emptied the Room the connection was in, which left the
\* registry, while another Room stays registered.
C19_Witness ==
  /\ last.op = "disconnect"
  /\ last.joined
  /\ ~Has(rooms, last.from)
  /\ \E i \in Insts : i \notin Registered(rooms) /\ Occupants(heap[i]) = {}
  /\ rooms # EmptyMap

\* A 'room' handler emptied the Room it left and joined another.
C19_WitnessLeave ==
  /\ last.op = "room"
  /\ last.from # ""
  /\ last.from # last.room
  /\ ~Has(rooms, last.from)
  /\ Has(rooms, last.room)

\* C16: stop() is idempotent and never throws.  A call of stop() raises no
\* error and changes no field of any Room: people, serverTime and the
\* observer list stay as they are; and on a Room that is already stopped or
\* was never started it changes nothing at all, the timers included, so the
\* Room is in the state a single stop() left it in.
C16_StopIdempotent ==
  [][last'.op = "stop" =>
       /\ last'.threw = ""
       /\ error' = error
       /\ heap' = heap
       /\ person' = person
       /\ timers' \subseteq timers
       /\ <<last'.i, heap[last'.i].tickerHandle>> \notin timers'
       /\ (~last'.active => timers' = timers)]_vars

\* stop() was called on a stopped Room with occupants, observers and ticks
\* behind it.
C16_Witness ==
  /\ last.op = "stop"
  /\ ~last.active
  /\ heap[last.i].tickerHandle > 0
  /\ heap[last.i].serverTime > 0
  /\ Occupants(heap[last.i]) # {}
  /\ heap[last.i].tickCallbacks # << >>

\* stop() was called on a Room that was never started.
C16_WitnessNeverStarted ==
  /\ last.op = "stop"
  /\ ~last.active
  /\ heap[last.i].tickerHandle = 0

\* C20: stop() halts the loop for every call history.  A tick of a Room
\* fires only while the interval of the Room's latest start() is active:
\* after stop() and before the next start(), the Room does not tick, however
\* often start() was called before the stop().
C20_StopHaltsLoop ==
  last.op = "tick" => <<last.i, heap[last.i].tickerHandle>> \in timers

\* What one tick under gravity g makes of a Person that was b before it:
\* gravity, then integration, then the floor clamp.
AfterTick(b, g) ==
  LET v == VelocityAfterGravity(b, g)
      y == IntegratedY(b, g)
  IN  [b EXCEPT !.velocity.y = IF y < FLOOR_Y THEN 0 ELSE v,
                !.position.y = IF y < FLOOR_Y THEN FLOOR_Y ELSE y]

\* C18: tick step ordering.  A tick invokes every observer of the Room once,
\* in registration order, and each invocation sees the serverTime already
\* incremented and every Person of the Room already moved by gravity,
\* integration and floor clamp: none sees one Person updated and another
\* not.
C18_ObserversAfterPhysics ==
  (last.op = "tick" /\ error = "") =>
    /\ [k \in 1..Len(last.calls) |-> last.calls[k].cb]
         = heap[last.i].tickCallbacks
    /\ \A k \in 1..Len(last.calls) :
         /\ last.calls[k].time = heap[last.i].serverTime
         /\ \A c \in PersonsOf(heap[last.i]) :
              last.calls[k].seen[c] =
                AfterTick(last.before[c], heap[last.i].gravity)

\* A tick moved two Persons and invoked two different observers, in the
\* order of their registration.
C18_Witness ==
  /\ last.op = "tick"
  /\ Len(last.calls) = 2
  /\ last.calls[1].cb # last.calls[2].cb
  /\ Cardinality(PersonsOf(heap[last.i])) = 2
  /\ \A c \in PersonsOf(heap[last.i]) :
       /\ person[c].position.y # last.before[c].position.y
       /\ person[c].velocity.y # last.before[c].velocity.y

\* C21: broadcast throttling.  A tick that leaves the Room's serverTime odd
\* emits nothing; a tick emits only person-update messages, and only when it
\* leaves serverTime even, and then the observer, unless it fails, does emit.
\* So the first tick of a new Room, which leaves serverTime 1, broadcasts
\* nothing, and the second is the first that can.
C21_BroadcastThrottling ==
  last.op = "tick" =>
    /\ \A m \in emitted : m.event = "person-update"
    /\ heap[last.i].serverTime % 2 = 1 => emitted = {}
    /\ (heap[last.i].serverTime % 2 = 0 /\ error = "") => emitted # {}

\* The second tick of a Room broadcast.
C21_Witness ==
  /\ last.op = "tick"
  /\ heap[last.i].serverTime = 2
  /\ last.n = 2
  /\ emitted # {}

\* The first tick of a Room with occupants broadcast nothing.
C21_WitnessOdd ==
  /\ last.op = "tick"
  /\ heap[last.i].serverTime = 1
  /\ Occupants(heap[last.i]) # {}
  /\ emitted = {}

\* C23: yaw range under rotation.  A Person whose yaw has only been changed
\* by rotate-counterclockwise events since its creation has a yaw in
\* [0, 2 pi).
C23_YawInRange ==
  \A c \in Conns : person[c].yaw >= 0 /\ person[c].yaw < 2 * PI

\* The events that change the sender's Person.
PersonEvents ==
  {"set-flying", "jump", "fly", "move-forwards-backwards", "move-right-left",
   "rotate-counterclockwise", "set-yaw", "set-pitch", "color", "shape"}

\* The Person p with the fields the event op names blanked.
Blanked(op, p) ==
  CASE op = "set-flying" -> [p EXCEPT !.flying = FALSE]
    [] op = "jump" -> [p EXCEPT !.velocity.y = 0]
    [] op = "fly" -> [p EXCEPT !.position.y = 0]
    [] op \in {"move-forwards-backwards", "move-right-left"} ->
         [p EXCEPT !.position.x = 0, !.position.z = 0]
    [] op \in {"rotate-counterclockwise", "set-yaw"} -> [p EXCEPT !.yaw = 0]
    [] op = "set-pitch" -> [p EXCEPT !.pitch = 0]
    [] op = "color" -> [p EXCEPT !.color = ""]
    [] op = "shape" -> [p EXCEPT !.shape = ""]

\* C22: events touch only the sender's Person.  A set-flying, jump, fly,
\* move, rotate, set-yaw, set-pitch, color or shape event changes only the
\* fields it names, on the sender's Person: every other Person, every Room
\* (its people, its serverTime), the registry, the timers and the
\* memberships stay as they are, and no error is raised.  The next tick of
\* the sender's Room steps the Person as the event left it.
C22_EventsTouchOnlySender ==
  [][/\ last'.op \in PersonEvents =>
          /\ Blanked(last'.op, person'[last'.c])
               = Blanked(last'.op, person[last'.c])
          /\ \A d \in Conns \ {last'.c} : person'[d] = person[d]
          /\ heap' = heap
          /\ rooms' = rooms
          /\ timers' = timers
          /\ channels' = channels
          /\ roomID' = roomID
          /\ conn' = conn
          /\ error' = error
     /\ last'.op = "tick" =>
          \A c \in PersonsOf(heap[last'.i]) :
            person'[c] = AfterTick(person[c], heap[last'.i].gravity)]_vars

\* An occupant sent an event in a Room that has ticked and holds another
\* occupant whose Person is no longer the default one.
C22_Witness ==
  /\ last.op \in PersonEvents
  /\ \E r \in DOMAIN rooms :
       /\ last.c \in Occupants(heap[rooms[r]])
       /\ heap[rooms[r]].serverTime > 0
       /\ \E d \in Occupants(heap[rooms[r]]) \ {last.c} :
            ~HasDefaults(person[d]) \/ person[d].color # "#ff7700"

\* The first tick after an event stepped a Person the event had lifted.
C22_WitnessTick ==
  /\ last.op = "tick"
  /\ last.n = 1
  /\ \E c \in PersonsOf(heap[last.i]) :
       /\ last.before[c].position.y > 0
       /\ last.before[c].position.x # 0
       /\ person[c] # last.before[c]

\* C24: registry and loop agree.  In every state the handlers reach, the
\* Rooms with an active tick timer are exactly the Rooms registered under
\* some room id: no Room ticks outside the registry and no registered Room
\* has a stopped loop.
C24_RegistryAndLoopAgree ==
  Ticking(timers) = Registered(rooms)

\* One Room has been torn down after it ticked, and another is registered
\* and ticking, with ticks behind it.
C24_Witness ==
  /\ \E i \in Insts :
       /\ i \notin Registered(rooms)
       /\ i \notin Ticking(timers)
       /\ heap[i].serverTime > 0
  /\ Registered(rooms) # {}
  /\ Ticking(timers) = Registered(rooms)
  /\ \E i \in Registered(rooms) : heap[i].serverTime > 0

\* C25: single membership.  In every state an occupant id is in the people
\* of at most one Room, and the Room of a connection that has joined a room
\* is the one registered under the connection's current room id.
C25_SingleMembership ==
  \A c \in Conns :
    /\ Cardinality({i \in Insts : c \in Occupants(heap[i])}) <= 1
    /\ (conn[c] = "open" /\ channels[c] # {}) =>
         /\ Has(rooms, roomID[c])
         /\ c \in Occupants(heap[rooms[roomID[c]]])

\* C26: the broadcast observer never fails.  Whenever an observer runs on
\* an even serverTime, the room id it looks up is in the registry, so no
\* tick raises an error, whatever the connection that created the Room has
\* done since.
C26_ObserverNeverFails ==
  last.op = "tick" =>
    /\ error = ""
    /\ heap[last.i].serverTime % 2 = 0 =>
         \A k \in 1..Len(heap[last.i].tickCallbacks) :
           Has(rooms, roomID[heap[last.i].tickCallbacks[k]])

\* C27: create-before-add always holds in the handlers.  The addToRoom call
\* of a 'room' handler finds the room id in the registry: the handler raises
\* no 'Room does not exist' error, and when it is done the connection is in
\* the people of the Room registered under that id.
C27_CreateBeforeAdd ==
  last.op = "room" =>
    /\ error = ""
    /\ Has(rooms, last.room)
    /\ last.c \in Occupants(heap[rooms[last.room]])

\* A connection alone in its room joined the same room id again: the leave
\* tore the Room down and the handler constructed another before the add.
C27_Witness ==
  /\ last.op = "room"
  /\ last.from = last.room
  /\ last.from # ""
  /\ rooms[last.room] > 1
  /\ Occupants(heap[rooms[last.room]]) = {last.c}
  /\ error = ""

\* C28: broadcast records respect the floor.  Every Person record emitted in
\* a person-update message has position.y >= FLOOR_Y when it is emitted.
C28_BroadcastRespectsFloor ==
  \A m \in emitted :
    m.event = "person-update" => m.arg.position.y >= FLOOR_Y

====
